---------------------------- MODULE Spec2Model ----------------------------
(***************************************************************************)
(* Custom emoji pipeline of Telegram Desktop                               *)
(* (Telegram/SourceFiles/data/stickers/data_custom_emoji.cpp):             *)
(*   - the identifier codec SerializeCustomEmojiId / ParseCustomEmojiData, *)
(*   - the CustomEmojiLoader state machine (Resolve / Lookup / Load),      *)
(*   - the CustomEmojiManager registry and its batched document requests.  *)
(*                                                                         *)
(* Strings are sequences of one-character strings.  Everything runs on the *)
(* main thread, so every handler is one atomic action.                     *)
(***************************************************************************)
EXTENDS Integers, Sequences, FiniteSets, TLC

\* ------------------------------------------------------------------ bounds

\* Width in bits of the modelled unsigned integers (uint64 in the source).
IdBits == 8

\* Longest token fed to the parser on its own.
MaxTokenLen == 4

UMax == 2^IdBits - 1

\* --------------------------------------------------------------- variables

VARIABLES
    codecPc,        \* position of the codec run: idle / id / serialized / parsedS / token / parsedT
    codecId,        \* the identifier handed to SerializeCustomEmojiId
    codecToken,     \* the token produced by the serializer or given as input
    codecParsed,    \* the identifier returned by ParseCustomEmojiData
    objects,        \* the CustomEmojiLoader objects built so far, by address
    cacheGets,      \* cacheBigFile().get() calls whose callback has not run yet
    cache,          \* keys of the entries the big-file cache holds
    docs,           \* documents the session knows with sticker data
    docData,        \* documents whose bytes or file path are available
    instances,      \* _instances: asset id -> address of the Instance's loader
    loaders,        \* _loaders: asset id -> weak pointers to the waiting loaders
    pendingForRequest, \* _pendingForRequest: a flat_set, kept sorted ascending
    requestId,      \* _requestId: 0 or the id of the batch request in flight
    network,        \* batch requests sent and not yet answered
    onMain,         \* number of queued crl::on_main(this, request) calls
    lastRid,        \* last request id handed out by the api
    expectsFailed,  \* an Expects() precondition was violated
    trace,          \* history, per loader: callbacks waiting, operations started, deliveries
    handles,        \* history: the handles create() returned, with the token of each
    batches,        \* history: the batch requests in the order sent
    lastDrain,      \* history: the pending set the latest request() drained
    addOrder,       \* history: the pending ids in the order they were added
    lastDone,       \* history, where recorded: the latest done handler's response and resolved() calls
    now,            \* crl::now()
    alive,          \* the Instances (repaint targets) not destroyed yet
    repaints,       \* _repaints: duration -> RepaintBunch (when, instances)
    repaintTimerScheduled, \* _repaintTimerScheduled: the postponed call is queued
    repaintNext,    \* _repaintNext: 0 or the time the timer is programmed for
    repaintTimer,   \* _repaintTimer: 0 when inactive, else the time it is due
    repaintLog      \* history: the latest run of invokeRepaints() and its repaint() calls

codecVars == <<codecPc, codecId, codecToken, codecParsed>>

loaderVars == <<objects, cacheGets, cache, docs, docData, trace, expectsFailed>>

managerVars == <<instances, loaders, pendingForRequest, requestId, network,
                 onMain, lastRid, handles, batches, lastDrain, addOrder, lastDone>>

repaintVars == <<now, alive, repaints, repaintTimerScheduled, repaintNext,
                 repaintTimer, repaintLog>>

vars == <<codecPc, codecId, codecToken, codecParsed, objects, cacheGets, cache,
          docs, docData, instances, loaders, pendingForRequest, requestId,
          network, onMain, lastRid, expectsFailed, trace, handles, batches,
          lastDrain, addOrder, lastDone, now, alive, repaints, repaintTimerScheduled,
          repaintNext, repaintTimer, repaintLog>>

\* ------------------------------------------------------------------- codec

Digits == <<"0", "1", "2", "3", "4", "5", "6", "7", "8", "9">>

IsDigit(c) == \E i \in 1..10 : Digits[i] = c

DigitValue(c) == (CHOOSE i \in 1..10 : Digits[i] = c) - 1

\* QString::number(qulonglong): decimal, no sign, no leading zeros.
RECURSIVE Number(_)
Number(n) ==
    IF n < 10 THEN <<Digits[n + 1]>>
    ELSE Number(n \div 10) \o <<Digits[(n % 10) + 1]>>

\* The decimal value of a digit string, or -1 once it exceeds the width.
RECURSIVE DecimalValue(_, _)
DecimalValue(s, acc) ==
    IF s = <<>> THEN acc
    ELSE LET next == acc * 10 + DigitValue(Head(s))
         IN  IF next > UMax THEN -1 ELSE DecimalValue(Tail(s), next)

\* QStringView::toULongLong(): base 10, the ok flag is not looked at by the
\* caller, so a failed conversion (empty, a non-digit, overflow) is just 0.
toULongLong(s) ==
    IF s = <<>> \/ (\E i \in 1..Len(s) : ~IsDigit(s[i])) THEN 0
    ELSE LET v == DecimalValue(s, 0) IN IF v < 0 THEN 0 ELSE v

\* QStringView::split(':') keeping empty parts.
RECURSIVE Split(_, _)
Split(s, current) ==
    IF s = <<>> THEN <<current>>
    ELSE IF Head(s) = ":" THEN <<current>> \o Split(Tail(s), <<>>)
    ELSE Split(Tail(s), Append(current, Head(s)))

\* CustomEmojiId{}.
EmptyId == [selfId |-> 0, id |-> 0]

SerializeSwapped(x) == Number(x.selfId) \o <<":">> \o Number(x.id)

SerializeCustomEmojiId(x) == Number(x.id) \o <<":">> \o Number(x.selfId)

ParseFirstFieldOnly(data) ==
    LET components == Split(data, <<>>)
    IN  IF Len(components) # 2 THEN EmptyId
        ELSE [selfId |-> 0, id |-> toULongLong(components[1])]

ParseCustomEmojiData(data) ==
    LET components == Split(data, <<>>)
    IN  IF Len(components) # 2 THEN EmptyId
        ELSE [selfId |-> toULongLong(components[2]),
              id     |-> toULongLong(components[1])]

\* ------------------------------------------------------- codec: state machine

Identifiers == [selfId : 0..UMax, id : 0..UMax]

TokenChars == {"0", "1", "9", ":", "x"}

RECURSIVE StringsUpTo(_)
StringsUpTo(n) ==
    IF n = 0 THEN {<<>>}
    ELSE LET shorter == StringsUpTo(n - 1)
         IN  shorter \cup {Append(s, c) : s \in {t \in shorter : Len(t) = n - 1},
                                          c \in TokenChars}

Tokens == StringsUpTo(MaxTokenLen)

\* No codec run: the state of the codec variables in the other specifications.
CodecIdle ==
    /\ codecPc = "idle"
    /\ codecId = EmptyId
    /\ codecToken = <<>>
    /\ codecParsed = EmptyId

\* token = SerializeCustomEmojiId(id)
CodecSerialize ==
    /\ codecPc = "id"
    /\ codecPc' = "serialized"
    /\ codecToken' = SerializeCustomEmojiId(codecId)
    /\ UNCHANGED <<codecId, codecParsed, loaderVars, managerVars, repaintVars>>

\* parsed = ParseCustomEmojiData(token), of a serialized or of a given token
CodecParse ==
    /\ codecPc \in {"serialized", "token"}
    /\ codecPc' = IF codecPc = "serialized" THEN "parsedS" ELSE "parsedT"
    /\ codecParsed' = ParseCustomEmojiData(codecToken)
    /\ UNCHANGED <<codecId, codecToken, loaderVars, managerVars, repaintVars>>

\* ------------------------------------------------------------------ loader

\* The callbacks callers pass to load(); 0 is an empty Fn.
MaxCallbacks == 2

Callbacks == 1..MaxCallbacks

\* External load() calls a loader takes while its callers wait, and the
\* processes a loader makes before external calls stop.
MaxCalls == 3

MaxProcesses == 2

SizeTags == {"Normal", "Large"}

\* Documents whose bigFileBaseCacheKey() is empty.
NoBaseKeyDocs == {2}

\* std::unique_ptr<Process>: guard 0 is the null pointer, any other guard
\* names the base::has_weak_ptr of one Process.
NoProcess == [loaded |-> 0, guard |-> 0]

NoKey == [doc |-> 0, tag |-> "Normal"]

\* A loader that was not resolved yet: Resolve{ .entityData = ... }.
\* guards counts the Processes made so far; previous is the alternative
\* _state held before its latest assignment ("None" after construction).
ResolveState(entityData, tag) ==
    [state |-> "Resolve", entityData |-> entityData, document |-> 0,
     requested |-> 0, process |-> NoProcess, tag |-> tag, guards |-> 0,
     previous |-> "None"]

\* Lookup{ document }.
LookupState(document, tag) ==
    [state |-> "Lookup", entityData |-> <<>>, document |-> document,
     requested |-> 0, process |-> NoProcess, tag |-> tag, guards |-> 0,
     previous |-> "None"]

\* CustomEmojiLoader(owner, id, tag) with InitialState(owner, id).
InitialState(known, id, tag) ==
    IF id.id \in known THEN LookupState(id.id, tag)
    ELSE ResolveState(SerializeCustomEmojiId(id), tag)

resolving(ld) == ld.state = "Resolve"

loading(ld) ==
    IF ld.state = "Resolve" THEN ld.requested # 0
    ELSE IF ld.state \in {"Lookup", "Load"} THEN ld.process.guard # 0
    ELSE FALSE

cacheKeyNoTag(ld) ==
    IF ld.document \in NoBaseKeyDocs THEN NoKey
    ELSE [doc |-> ld.document, tag |-> "Normal"]

cacheKey(ld) ==
    IF ld.document \in NoBaseKeyDocs THEN NoKey
    ELSE [doc |-> ld.document, tag |-> ld.tag]

\* What one loader method did: the loader afterwards, the cache reads it
\* issued, the results it handed to callbacks.
Effect(ld) == [ld |-> ld, get |-> {}, out |-> <<>>]

\* check(): deliver once bytes or a file path are there.
check(ld, avail) ==
    IF ~avail THEN Effect(ld)
    ELSE [ld  |-> [ld EXCEPT !.process = NoProcess],
          get |-> {},
          out |-> <<[cb |-> ld.process.loaded, kind |-> "Caching"]>>]

\* load() in the Load state.
LoadDecodingAlways(ld, loaded, avail) ==
    LET made == [ld EXCEPT !.process = [loaded |-> loaded, guard |-> ld.guards + 1],
                           !.guards = @ + 1]
    IN  IF avail THEN check(made, TRUE) ELSE Effect(made)

LoadDecoding(ld, loaded, avail) ==
    IF ld.process.guard = 0
    THEN LET made == [ld EXCEPT !.process = [loaded |-> loaded, guard |-> ld.guards + 1],
                                !.guards = @ + 1]
         IN  IF avail THEN check(made, TRUE) ELSE Effect(made)
    ELSE Effect([ld EXCEPT !.process.loaded = loaded])

loadNoCache(ld, loaded, avail) ==
    LoadDecoding([ld EXCEPT !.state = "Load", !.process = NoProcess,
                            !.previous = ld.state], loaded, avail)

startCacheLookup(ld, loaded, avail) ==
    LET key == cacheKey(ld)
    IN  IF key = NoKey THEN loadNoCache(ld, loaded, avail)
        ELSE [ld  |-> [ld EXCEPT !.process = [loaded |-> loaded, guard |-> ld.guards + 1],
                                 !.guards = @ + 1],
              get |-> {[guard |-> ld.guards + 1, key |-> key]},
              out |-> <<>>]

LoadLookupAlways(ld, loaded, avail) == startCacheLookup(ld, loaded, avail)

LoadLookup(ld, loaded, avail) ==
    IF ld.process.guard = 0 THEN startCacheLookup(ld, loaded, avail)
    ELSE Effect([ld EXCEPT !.process.loaded = loaded])

load(ld, loaded, avail) ==
    IF ld.state = "Resolve" THEN Effect([ld EXCEPT !.requested = loaded])
    ELSE IF ld.state = "Lookup" THEN LoadLookup(ld, loaded, avail)
    ELSE IF ld.state = "Load" THEN LoadDecoding(ld, loaded, avail)
    ELSE Effect(ld)

lookupDoneSurfacesMiss(ld, hit, avail) ==
    IF ~hit THEN [ld  |-> [ld EXCEPT !.process = NoProcess],
                  get |-> {},
                  out |-> <<[cb |-> ld.process.loaded, kind |-> "Empty"]>>]
    ELSE [ld  |-> [ld EXCEPT !.process.loaded = 0],
          get |-> {},
          out |-> <<[cb |-> ld.process.loaded, kind |-> "Cached"]>>]

\* lookupDone(): a miss falls through to the decode; a hit moves the
\* callback out of the process and calls it, the process itself stays.
lookupDone(ld, hit, avail) ==
    IF ~hit THEN loadNoCache(ld, ld.process.loaded, avail)
    ELSE [ld  |-> [ld EXCEPT !.process.loaded = 0],
          get |-> {},
          out |-> <<[cb |-> ld.process.loaded, kind |-> "Cached"]>>]

resolvedForgetsRequest(ld, document, avail) ==
    Effect([ld EXCEPT !.state = "Lookup", !.entityData = <<>>,
                      !.document = document, !.requested = 0,
                      !.previous = ld.state])

resolvedSkipsLookup(ld, document, avail) ==
    LET lookup == [ld EXCEPT !.state = "Lookup", !.entityData = <<>>,
                             !.document = document, !.requested = 0,
                             !.previous = ld.state]
        decode == [ld EXCEPT !.state = "Load", !.entityData = <<>>,
                             !.document = document, !.requested = 0,
                             !.previous = ld.state]
    IN  IF ld.requested # 0 THEN LoadDecoding(decode, ld.requested, avail)
        ELSE Effect(lookup)

\* resolved(): Expects(resolving()) is checked by the caller of this operator.
resolved(ld, document, avail) ==
    LET lookup == [ld EXCEPT !.state = "Lookup", !.entityData = <<>>,
                             !.document = document, !.requested = 0,
                             !.previous = ld.state]
    IN  IF ld.requested # 0 THEN load(lookup, ld.requested, avail)
        ELSE Effect(lookup)

cancel(ld) ==
    IF ld.state \in {"Lookup", "Load"} THEN [ld EXCEPT !.process = NoProcess]
    ELSE ld

entityData(ld) ==
    IF ld.state = "Resolve" THEN ld.entityData
    ELSE SerializeCustomEmojiId([selfId |-> 1, id |-> ld.document])

\* -------------------------------------------------------- loader: history

\* waiting: the callbacks of the load() calls not answered or cancelled yet;
\* starts: the operations started since the last completion or cancel;
\* delivered: the latest result handed to a callback, with the calls that
\* waited for it; renderer: a Caching result was delivered; decodes: the
\* number of Caching results delivered; cancelled: cancel() was called and
\* load() was not called since.
NoTrace == [waiting |-> <<>>, starts |-> 0, delivered |-> <<>>, renderer |-> FALSE,
            decodes |-> 0, cancelled |-> FALSE]

\* The history after a method ran: `call` is the callback of an external
\* load() (0 otherwise), `completed` says an operation's completion ran.
NextTrace(t, old, eff, call, completed) ==
    LET waiting == IF call # 0 THEN Append(t.waiting, call) ELSE t.waiting
        base    == IF completed THEN 0 ELSE t.starts
    IN  IF eff.out # <<>>
        THEN [waiting   |-> <<>>,
              starts    |-> 0,
              delivered |-> <<[cb |-> eff.out[1].cb, kind |-> eff.out[1].kind,
                               waiting |-> waiting]>>,
              renderer  |-> (t.renderer \/ eff.out[1].kind = "Caching"),
              decodes   |-> t.decodes + (IF eff.out[1].kind = "Caching" THEN 1 ELSE 0),
              cancelled |-> (call = 0 /\ t.cancelled)]
        ELSE [waiting   |-> waiting,
              starts    |-> base + (eff.ld.guards - old.guards),
              delivered |-> t.delivered,
              renderer  |-> t.renderer,
              decodes   |-> t.decodes,
              cancelled |-> (call = 0 /\ t.cancelled)]

\* The loaders, their cache reads and their history, as one value.
Heap == [objects |-> objects, cacheGets |-> cacheGets, trace |-> trace,
         failed |-> expectsFailed]

Apply(h, l, eff, call, completed) ==
    [objects   |-> [h.objects EXCEPT ![l] = eff.ld],
     cacheGets |-> h.cacheGets \cup {[loader |-> l, guard |-> g.guard, key |-> g.key] :
                                     g \in eff.get},
     trace     |-> [h.trace EXCEPT ![l] = NextTrace(h.trace[l], h.objects[l], eff,
                                                    call, completed)],
     failed    |-> h.failed]

SetHeap(h) ==
    /\ objects' = h.objects
    /\ cacheGets' = h.cacheGets
    /\ trace' = h.trace
    /\ expectsFailed' = h.failed

Available(ld, data) == ld.document \in data

LiveAnyProcess(objs, r) ==
    /\ objs[r.loader].state = "Lookup"
    /\ objs[r.loader].process.guard # 0

\* A cache read whose guard is still alive: its Process still exists.
Live(objs, r) ==
    /\ objs[r.loader].state = "Lookup"
    /\ objs[r.loader].process.guard = r.guard

\* loader->load(loaded), called by the owner of the loader.
Load(l, loaded) ==
    /\ l \in DOMAIN objects
    /\ SetHeap(Apply(Heap, l, load(objects[l], loaded, Available(objects[l], docData)),
                     loaded, FALSE))
    /\ UNCHANGED <<codecVars, repaintVars, cache, docs, docData, managerVars>>

\* loader->cancel().
Cancel(l) ==
    /\ l \in DOMAIN objects
    /\ objects' = [objects EXCEPT ![l] = cancel(@)]
    /\ trace' = [trace EXCEPT ![l] = IF objects[l].state \in {"Lookup", "Load"}
                                     THEN [@ EXCEPT !.waiting = <<>>, !.starts = 0,
                                                    !.cancelled = TRUE]
                                     ELSE [@ EXCEPT !.cancelled = TRUE]]
    /\ UNCHANGED <<codecVars, repaintVars, cacheGets, cache, docs, docData, expectsFailed, managerVars>>

\* The callback of cacheBigFile().get() posted with crl::on_main(weak, ...):
\* it runs lookupDone() only while the guard of its Process is alive.
CacheGetDone(r, hit) ==
    /\ r \in cacheGets
    /\ hit => r.key \in cache
    /\ IF Live(objects, r)
       THEN SetHeap(Apply([Heap EXCEPT !.cacheGets = @ \ {r}], r.loader,
                          lookupDone(objects[r.loader], hit,
                                     Available(objects[r.loader], docData)),
                          0, TRUE))
       ELSE /\ cacheGets' = cacheGets \ {r}
            /\ UNCHANGED <<objects, trace, expectsFailed>>
    /\ UNCHANGED <<codecVars, repaintVars, cache, docs, docData, managerVars>>

\* session().downloaderTaskFinished() fires: every loader subscribed to it
\* (a Load state with a process) runs check().
DownloaderTaskFinished(d) ==
    LET data == docData \cup {d}
        Subscribed(l) == objects[l].state = "Load" /\ objects[l].process.guard # 0
        Eff(l) == check(objects[l], Available(objects[l], data))
    IN  /\ docData' = data
        /\ objects' = [l \in DOMAIN objects |->
                          IF Subscribed(l) THEN Eff(l).ld ELSE objects[l]]
        /\ trace' = [l \in DOMAIN objects |->
                        IF Subscribed(l)
                        THEN NextTrace(trace[l], objects[l], Eff(l), 0,
                                       Available(objects[l], data))
                        ELSE trace[l]]
        /\ UNCHANGED <<codecVars, repaintVars, cacheGets, cache, docs, expectsFailed, managerVars>>

\* The Renderer a decode delivered writes the cache entry through `put`,
\* under the key check() computed, the empty key included.
RendererPut(l) ==
    /\ l \in DOMAIN objects
    /\ trace[l].renderer
    /\ cache' = cache \cup {cacheKey(objects[l])}
    /\ UNCHANGED <<codecVars, repaintVars, objects, cacheGets, docs, docData, trace, expectsFailed,
                   managerVars>>

\* manager -> loader: resolved(document) for a loader waiting on its id.
Resolved(l) ==
    /\ l \in DOMAIN objects
    /\ resolving(objects[l])
    /\ LET document == ParseCustomEmojiData(objects[l].entityData).id
       IN  /\ docs' = docs \cup {document}
           /\ SetHeap(Apply(Heap, l,
                            resolved(objects[l], document, document \in docData),
                            0, FALSE))
    /\ UNCHANGED <<codecVars, repaintVars, cache, docData, managerVars>>

\* ----------------------------------------------------------------- manager

\* No done handler was recorded.
NoDone == [response |-> <<>>, order |-> <<>>]

RECURSIVE ResolvedInReverse(_, _, _)
RECURSIVE ResolvedInOrder(_, _, _)

kMaxPerRequest == 100

Last(s) == s[Len(s)]

\* base::flat_set::emplace: a sorted vector without duplicates.
emplaceAtEnd(set, id) == Append(set, id)

emplace(set, id) ==
    IF \E i \in 1..Len(set) : set[i] = id THEN set
    ELSE LET smaller == SelectSeq(set, LAMBDA x : x < id)
             larger  == SelectSeq(set, LAMBDA x : x > id)
         IN  smaller \o <<id>> \o larger

\* The loop of request(): move ids from the end of the set into the request.
RECURSIVE TakeIdsOneMore(_, _)
TakeIdsOneMore(pending, ids) ==
    IF pending # <<>> /\ Len(ids) <= kMaxPerRequest
    THEN TakeIdsOneMore(SubSeq(pending, 1, Len(pending) - 1), Append(ids, Last(pending)))
    ELSE [ids |-> ids, rest |-> pending]

RECURSIVE TakeIds(_, _)
TakeIds(pending, ids) ==
    IF pending # <<>> /\ Len(ids) < kMaxPerRequest
    THEN TakeIds(SubSeq(pending, 1, Len(pending) - 1), Append(ids, Last(pending)))
    ELSE [ids |-> ids, rest |-> pending]

\* request(), given the pending set, the value of _requestId, the requests in
\* flight and the history of batches when it is called.
request(pending, rid, net, sent) ==
    LET taken == TakeIds(pending, <<>>)
    IN  IF taken.ids = <<>>
        THEN /\ pendingForRequest' = pending
             /\ requestId' = rid
             /\ network' = net
             /\ batches' = sent
             /\ UNCHANGED <<lastRid, lastDrain, addOrder>>
        ELSE /\ pendingForRequest' = taken.rest
             /\ requestId' = lastRid + 1
             /\ lastRid' = lastRid + 1
             /\ network' = net \cup {[rid |-> lastRid + 1, ids |-> taken.ids]}
             /\ batches' = Append(sent, [ids |-> taken.ids, result |-> "sent"])
             /\ lastDrain' = [before |-> pending, order |-> addOrder]
             /\ addOrder' = SelectSeq(addOrder,
                                      LAMBDA x : \E i \in 1..Len(pendingForRequest') :
                                                    pendingForRequest'[i] = x)

requestFinishedNoChain(pending, net, sent) ==
    /\ pendingForRequest' = pending
    /\ requestId' = 0
    /\ network' = net
    /\ batches' = sent
    /\ UNCHANGED <<lastRid, lastDrain, addOrder>>

requestFinished(pending, net, sent) ==
    IF pending # <<>> THEN request(pending, 0, net, sent)
    ELSE /\ pendingForRequest' = pending
         /\ requestId' = 0
         /\ network' = net
         /\ batches' = sent
         /\ UNCHANGED <<lastRid, lastDrain, addOrder>>

\* _instances.find(parsed.id) != end(_instances)
HasInstanceNever(id) == FALSE

HasInstance(id) == id \in DOMAIN instances

\* !_requestId && _pendingForRequest.size() == 1
NeedsRequestCallAnyway(rid, pending) == Len(pending) = 1

NeedsRequestCall(rid, pending) == rid = 0 /\ Len(pending) = 1

\* The address of a loader made for asset id: any address not in use.
NewAddress(id) == <<id, 1 + Cardinality({a \in DOMAIN objects : a[1] = id})>>

\* CustomEmojiManager::create(data, update); a handle is recorded in `handles`
\* unless the result is nullptr.
Create(data) ==
    LET parsed == ParseCustomEmojiData(data)
        id     == parsed.id
        l      == NewAddress(id)
        loader == InitialState(docs, parsed, "Normal")
        queued == emplace(pendingForRequest, id)
        bound  == (instances @@ (id :> l))[id]
    IN  /\ IF id = 0
           THEN UNCHANGED <<objects, trace, loaders, pendingForRequest, addOrder,
                            onMain, instances, handles>>
           ELSE IF HasInstance(id)
           THEN /\ handles' = handles \cup {[data |-> data, instance |-> instances[id]]}
                /\ UNCHANGED <<objects, trace, loaders, pendingForRequest, addOrder,
                               onMain, instances>>
           ELSE /\ objects' = objects @@ (l :> loader)
                /\ trace' = trace @@ (l :> NoTrace)
                /\ IF resolving(loader)
                   THEN /\ loaders' = IF id \in DOMAIN loaders
                                       THEN [loaders EXCEPT ![id] = Append(@, l)]
                                       ELSE loaders @@ (id :> <<l>>)
                        /\ pendingForRequest' = queued
                        /\ addOrder' = Append(addOrder, id)
                        /\ onMain' = IF NeedsRequestCall(requestId, queued)
                                     THEN onMain + 1 ELSE onMain
                   ELSE UNCHANGED <<loaders, pendingForRequest, addOrder, onMain>>
                /\ instances' = instances @@ (id :> l)
                /\ handles' = handles \cup {[data |-> data, instance |-> bound]}
        /\ UNCHANGED <<codecVars, repaintVars, cacheGets, cache, docs, docData, expectsFailed,
                       requestId, network, lastRid, batches, lastDrain, lastDone>>

\* The call queued by crl::on_main(this, [=] { request(); }).
RunRequest ==
    /\ onMain > 0
    /\ onMain' = onMain - 1
    /\ request(pendingForRequest, requestId, network, batches)
    /\ UNCHANGED <<codecVars, repaintVars, loaderVars, instances, loaders, handles,
                   lastDone>>

\* The done handler's loops as the sequence of resolved() calls they make:
\* the entries of result.v in order, for each the waiter list _loaders.take(id)
\* gives (none once the id was taken), in it the weak pointers still alive.
ResolvedInReverse(result, lds, objs) ==
    IF result = <<>> THEN <<>>
    ELSE LET id   == Last(result)
             rest == SubSeq(result, 1, Len(result) - 1)
         IN  IF id \in DOMAIN lds
             THEN SelectSeq(lds[id], LAMBDA l : objs[l].state # "Dead")
                      \o ResolvedInReverse(rest, [k \in DOMAIN lds \ {id} |-> lds[k]], objs)
             ELSE ResolvedInReverse(rest, lds, objs)

ResolvedInOrder(result, lds, objs) ==
    IF result = <<>> THEN <<>>
    ELSE LET id == Head(result)
         IN  IF id \in DOMAIN lds
             THEN SelectSeq(lds[id], LAMBDA l : objs[l].state # "Dead")
                      \o ResolvedInOrder(Tail(result), [k \in DOMAIN lds \ {id} |-> lds[k]], objs)
             ELSE ResolvedInOrder(Tail(result), lds, objs)

KeepWaiters(lds, taken) == lds

\* _loaders after _loaders.take(id) ran for every id of the response.
TakeWaiters(lds, taken) == [k \in DOMAIN lds \ taken |-> lds[k]]

\* The done handler's loops, loader by loader.  For each entry of result.v the
\* waiter list of its id is taken out of _loaders (so a repeated id finds no
\* list the second time) and resolved(document) is called on every live weak
\* pointer in it.  Calls on different loaders do not touch each other's
\* state, so the loops are taken pointwise: Calls(l) is the number of
\* resolved() calls loader l gets, the first of which finds it as it is now
\* and any further one would find it no longer resolving.  A loader waits
\* only in the list of the id it was built for (create() pushes it there),
\* which is the first component of its address.
Done(r, result) ==
    LET taken == DOMAIN loaders \cap {result[i] : i \in 1..Len(result)}
        Calls(l) == IF l[1] \in taken
                    THEN Cardinality({i \in 1..Len(loaders[l[1]]) : loaders[l[1]][i] = l})
                    ELSE 0
        Called(l) == Calls(l) > 0 /\ objects[l].state # "Dead"
        Document(l) == l[1]
        Eff(l) == resolved(objects[l], Document(l), Document(l) \in docData)
        Does(l) == Called(l) /\ resolving(objects[l])
    IN  /\ r \in network
        /\ objects' = [l \in DOMAIN objects |-> IF Does(l) THEN Eff(l).ld ELSE objects[l]]
        /\ trace' = [l \in DOMAIN objects |->
                        IF Does(l) THEN NextTrace(trace[l], objects[l], Eff(l), 0, FALSE)
                        ELSE trace[l]]
        /\ cacheGets' = cacheGets \cup
                           {[loader |-> l, guard |-> Eff(l).ld.process.guard,
                             key |-> cacheKey(Eff(l).ld)] :
                                l \in {k \in DOMAIN objects : Does(k) /\ Eff(k).get # {}}}
        /\ expectsFailed' = (expectsFailed \/
                                \E l \in DOMAIN objects :
                                    Called(l) /\ (~resolving(objects[l]) \/ Calls(l) > 1))
        /\ loaders' = TakeWaiters(loaders, taken)
        /\ docs' = docs \cup {result[i] : i \in 1..Len(result)}
        /\ requestFinished(pendingForRequest, network \ {r},
                           [batches EXCEPT ![r.rid].result = "done"])
        /\ UNCHANGED <<codecVars, repaintVars, cache, docData, instances, onMain, handles>>

\* .done() of the batch request r.
RequestDone(r, result) == Done(r, result) /\ UNCHANGED lastDone

\* The same, with the response and the order of the resolved() calls recorded.
RequestDoneRecorded(r, result) ==
    /\ Done(r, result)
    /\ lastDone' = [response |-> result,
                    order    |-> ResolvedInOrder(result, loaders, objects)]

\* .fail() of the batch request r.
RequestFail(r) ==
    /\ r \in network
    /\ requestFinished(pendingForRequest, network \ {r},
                       [batches EXCEPT ![r.rid].result = "failed"])
    /\ UNCHANGED <<codecVars, repaintVars, loaderVars, instances, loaders, onMain, handles,
                   lastDone>>

\* ---------------------------------------------------------- specifications

NoLoaders ==
    /\ objects = <<>>
    /\ trace = <<>>
    /\ cacheGets = {}
    /\ cache = {}
    /\ docData = {}
    /\ expectsFailed = FALSE

\* No Instance asks for repaints; the clock starts.
NoTargets ==
    /\ now = 0
    /\ alive = {}

NoManager ==
    /\ instances = <<>>
    /\ loaders = <<>>
    /\ pendingForRequest = <<>>
    /\ requestId = 0
    /\ network = {}
    /\ onMain = 0
    /\ lastRid = 0
    /\ handles = {}
    /\ batches = <<>>
    /\ lastDrain = [before |-> <<>>, order |-> <<>>]
    /\ addOrder = <<>>
    /\ lastDone = NoDone
    /\ repaints = <<>>
    /\ repaintTimerScheduled = FALSE
    /\ repaintNext = 0
    /\ repaintTimer = 0
    /\ repaintLog = <<>>

\* The codec on its own: an identifier is serialized and parsed back, or a
\* short token is parsed.
InitCodec ==
    /\ \/ /\ codecPc = "id"
          /\ codecId \in Identifiers
          /\ codecToken = <<>>
       \/ /\ codecPc = "token"
          /\ codecId = EmptyId
          /\ codecToken \in Tokens
    /\ codecParsed = EmptyId
    /\ NoLoaders
    /\ docs = {}
    /\ NoManager
    /\ NoTargets

NextCodec ==
    \/ CodecSerialize
    \/ CodecParse

SpecCodec == InitCodec /\ [][NextCodec]_vars

\* The manager with a few assets: any order of create calls, any response.
MaxAssets == 2

MaxResponse == 2

AssetIds == 1..MaxAssets

SelfIds == {1}

MalformedTokens == {<<"1">>, <<"1", ":", "x">>, <<"x", ":", "1">>}

\* A second spelling of the identifier (id 1, selfId 1).
PaddedTokens == {<<"0", "1", ":", "1">>}

ManagerTokens ==
    {SerializeCustomEmojiId([selfId |-> s, id |-> a]) : s \in SelfIds, a \in AssetIds}
        \cup PaddedTokens \cup MalformedTokens

RECURSIVE SeqsUpTo(_, _)
SeqsUpTo(S, n) ==
    IF n = 0 THEN {<<>>}
    ELSE LET shorter == SeqsUpTo(S, n - 1)
         IN  shorter \cup {Append(s, x) : s \in {t \in shorter : Len(t) = n - 1}, x \in S}

Responses == SeqsUpTo(AssetIds, MaxResponse)

InitManager ==
    /\ CodecIdle
    /\ NoLoaders
    /\ docs \in {{}, {MaxAssets}}
    /\ NoManager
    /\ NoTargets

NextManager ==
    \/ \E data \in ManagerTokens : Create(data)
    \/ RunRequest
    \/ \E r \in network : \E result \in Responses : RequestDone(r, result)
    \/ \E r \in network : RequestFail(r)
    \/ \E l \in DOMAIN objects :
          /\ resolving(objects[l])
          /\ objects[l].requested = 0
          /\ Load(l, 1)

SpecManager == InitManager /\ [][NextManager]_vars

\* The queued request() call runs, and every batch sent is answered.
RequestCompletes ==
    \E r \in network : (\E result \in Responses : RequestDone(r, result)) \/ RequestFail(r)

FairSpecManager ==
    SpecManager /\ WF_vars(RunRequest) /\ WF_vars(RequestCompletes)

\* Many unresolved assets created in one go, before the queued request()
\* call runs, and none afterwards; every batch is answered in full or fails.
MaxBatchAssets == 250

InitBatch ==
    /\ CodecIdle
    /\ NoLoaders
    /\ docs = {}
    /\ NoManager
    /\ NoTargets

NextBatch ==
    \/ /\ batches = <<>>
       /\ Cardinality(DOMAIN instances) < MaxBatchAssets
       /\ Create(SerializeCustomEmojiId(
                     [selfId |-> 1,
                      id |-> MaxBatchAssets - Cardinality(DOMAIN instances)]))
    \/ RunRequest
    \/ \E r \in network : RequestDone(r, r.ids)
    \/ \E r \in network : RequestFail(r)

SpecBatch == InitBatch /\ [][NextBatch]_vars

\* One loader on its own, built by CustomEmojiLoader(owner, id, tag) for a
\* known or an unknown document; its owner calls load() and cancel(), the
\* manager resolves it, the cache and the downloader answer in any order.
\* A document with a base cache key and one without.
LoaderDocs == {1} \cup NoBaseKeyDocs

InitLoader ==
    /\ CodecIdle
    /\ NoManager
    /\ NoTargets
    /\ \E id \in LoaderDocs, tag \in SizeTags, known \in BOOLEAN :
          /\ docs = IF known THEN {id} ELSE {}
          /\ objects = (<<id, 1>> :> InitialState(docs, [selfId |-> 1, id |-> id], tag))
    /\ trace = [l \in DOMAIN objects |-> NoTrace]
    /\ cacheGets = {}
    /\ cache \in {{}, {[doc |-> 1, tag |-> "Normal"]}}
    /\ docData \in {{}, LoaderDocs}
    /\ expectsFailed = FALSE

\* The owner stops calling load() after MaxCalls unanswered calls and after
\* MaxProcesses processes.
MayLoad(l) ==
    /\ Len(trace[l].waiting) < MaxCalls
    /\ objects[l].guards < MaxProcesses

NextLoader ==
    \/ \E l \in DOMAIN objects : \E loaded \in Callbacks : MayLoad(l) /\ Load(l, loaded)
    \/ \E l \in DOMAIN objects : Cancel(l)
    \/ \E l \in DOMAIN objects : Resolved(l)
    \/ \E r \in cacheGets : \E hit \in BOOLEAN : CacheGetDone(r, hit)
    \/ \E d \in LoaderDocs : DownloaderTaskFinished(d)
    \/ \E l \in DOMAIN objects : RendererPut(l)

SpecLoader == InitLoader /\ [][NextLoader]_vars

\* ------------------------------------------------------------------ claims

Elements(s) == {s[i] : i \in 1..Len(s)}

Min(a, b) == IF a < b THEN a ELSE b

NumericField(s) == s # <<>> /\ \A i \in 1..Len(s) : IsDigit(s[i])

WellFormedToken(t) ==
    LET components == Split(t, <<>>)
    IN  /\ Len(components) = 2
        /\ NumericField(components[1])
        /\ NumericField(components[2])

\* C1: parsing the serialized form of an identifier gives back the same
\* asset id and the same owning-account id.
C1_RoundTrip ==
    codecPc = "parsedS" =>
        /\ codecParsed.id = codecId.id
        /\ codecParsed.selfId = codecId.selfId

C1_Witness ==
    /\ codecPc = "parsedS"
    /\ codecId.id = UMax
    /\ codecId.selfId = 10
    /\ codecParsed = codecId

\* C2: a token that is not two colon-separated integer fields is rejected:
\* it parses to the empty identifier and create() gives no handle for it, so
\* no handle ever carries such a token.
C2_MalformedRejected ==
    \A h \in handles : WellFormedToken(h.data)

\* C5: at most one batch document-lookup request is in flight.
C5_OneBatchInFlight ==
    /\ Cardinality(network) <= 1
    /\ network # {} => \E r \in network : r.rid = requestId

C5_Witness ==
    /\ Cardinality(network) = 1
    /\ pendingForRequest # <<>>
    /\ onMain = 0

\* C6: a batch carries between 1 and kMaxPerRequest ids, none of them stays
\* pending; with N assets created before the first batch and none after, every
\* batch but the last carries kMaxPerRequest ids, and once all is answered
\* ceil(N / kMaxPerRequest) batches were sent, the last with the remainder.
BatchQuiet == batches # <<>> /\ network = {} /\ pendingForRequest = <<>> /\ onMain = 0

C6_BatchSizes ==
    LET N == Cardinality(DOMAIN instances)
    IN  /\ \A i \in 1..Len(batches) :
              /\ Len(batches[i].ids) >= 1
              /\ Len(batches[i].ids) <= kMaxPerRequest
              /\ Elements(batches[i].ids) \cap Elements(pendingForRequest) = {}
        /\ \A i \in 1..(Len(batches) - 1) : Len(batches[i].ids) = kMaxPerRequest
        /\ BatchQuiet =>
              /\ Len(batches) = (N + kMaxPerRequest - 1) \div kMaxPerRequest
              /\ Len(Last(batches).ids) = N - kMaxPerRequest * (Len(batches) - 1)

C6_Witness ==
    /\ BatchQuiet
    /\ Cardinality(DOMAIN instances) = MaxBatchAssets
    /\ Len(batches) = 3
    /\ Len(batches[1].ids) = kMaxPerRequest
    /\ Len(batches[2].ids) = kMaxPerRequest
    /\ Len(batches[3].ids) = MaxBatchAssets - 2 * kMaxPerRequest

FailStep(i) == batches[i].result = "sent" /\ batches'[i].result = "failed"

C9_FailStep(i) ==
    /\ objects' = objects
    /\ loaders' = loaders
    /\ instances' = instances
    /\ Elements(batches[i].ids) \cap Elements(pendingForRequest') = {}
    /\ \A r \in network' : r.rid # i
    /\ IF pendingForRequest = <<>>
       THEN /\ requestId' = 0
            /\ network' = {}
            /\ pendingForRequest' = <<>>
            /\ Len(batches') = Len(batches)
       ELSE /\ Len(batches') = Len(batches) + 1
            /\ requestId' = Len(batches')
            /\ network' = {[rid |-> requestId', ids |-> Last(batches').ids]}
            /\ Elements(pendingForRequest') \cup Elements(Last(batches').ids)
                   = Elements(pendingForRequest)
            /\ Elements(pendingForRequest') \cap Elements(Last(batches').ids) = {}

C9_FailedNotRetried ==
    \A i \in 1..Len(batches) : \A j \in 1..Len(batches) :
        (batches[i].result = "failed" /\ i # j) =>
            Elements(batches[i].ids) \cap Elements(batches[j].ids) = {}

C9_BatchFailure ==
    /\ [][\A i \in 1..Len(batches) : FailStep(i) => C9_FailStep(i)]_vars
    /\ []C9_FailedNotRetried

C9_Witness ==
    \E i \in 1..Len(batches) :
        /\ batches[i].result = "failed"
        /\ Len(batches) > i
        /\ \E l \in DOMAIN objects : l[1] \in Elements(batches[i].ids) /\ resolving(objects[l])

\* C10: handles made for one identifier share one Instance; one loader is
\* built for it, it waits in at most one place, and its id enters the pending
\* set at most once in the whole run.
NoRepeats(s) == \A i \in 1..Len(s) : \A j \in 1..Len(s) : s[i] = s[j] => i = j

RECURSIVE Flatten(_)
Flatten(ss) == IF ss = <<>> THEN <<>> ELSE Head(ss) \o Flatten(Tail(ss))

EverQueued == Flatten([i \in 1..Len(batches) |-> batches[i].ids]) \o addOrder

C10_SharedInstance ==
    /\ \A h1 \in handles : \A h2 \in handles :
          ParseCustomEmojiData(h1.data) = ParseCustomEmojiData(h2.data)
              => h1.instance = h2.instance
    /\ \A h \in handles :
          /\ h.instance \in DOMAIN objects
          /\ Cardinality({a \in DOMAIN objects : a[1] = ParseCustomEmojiData(h.data).id}) = 1
    /\ \A a \in DOMAIN objects :
          Cardinality({<<id, i>> \in {<<k, n>> \in (DOMAIN loaders) \X (1..Cardinality(DOMAIN objects)) :
                                         n <= Len(loaders[k])} :
                          loaders[id][i] = a}) <= 1
    /\ NoRepeats(EverQueued)

C10_Witness ==
    \E h1 \in handles : \E h2 \in handles :
        /\ h1.data # h2.data
        /\ ParseCustomEmojiData(h1.data) = ParseCustomEmojiData(h2.data)
        /\ h1.instance = h2.instance
        /\ resolving(objects[h1.instance])
        /\ h1.instance[1] \in Elements(EverQueued)


\* The operations of loader l that are still to complete: cache reads whose
\* Process is alive, and the decode of a Load state with a Process.
Outstanding(l) ==
    Cardinality({r \in cacheGets : r.loader = l /\ Live(objects, r)})
        + (IF objects[l].state = "Load" /\ objects[l].process.guard # 0 THEN 1 ELSE 0)

C4_AllCallbacksInvoked ==
    \A l \in DOMAIN objects :
        \A i \in 1..Len(trace[l].delivered) :
            Elements(trace[l].delivered[i].waiting) \subseteq {trace[l].delivered[i].cb}


\* The loader built for asset id is waiting for its document.
Resolving(id) == <<id, 1>> \in DOMAIN objects /\ resolving(objects[<<id, 1>>])

\* A batch carrying id has completed without a record for it: it failed, or
\* no response ever held a document for id.
AnsweredWithout(id) ==
    \E i \in 1..Len(batches) :
        /\ id \in Elements(batches[i].ids)
        /\ \/ batches[i].result = "failed"
           \/ batches[i].result = "done" /\ id \notin docs

AccountIds == {1, 2}

RegistryTokens ==
    {SerializeCustomEmojiId([selfId |-> s, id |-> a]) : s \in AccountIds, a \in AssetIds}

NextRegistry ==
    \/ \E data \in RegistryTokens : Create(data)
    \/ RunRequest
    \/ \E r \in network : \E result \in Responses : RequestDone(r, result)
    \/ \E r \in network : RequestFail(r)

SpecRegistry == InitManager /\ [][NextRegistry]_vars

\* C11: handles made from tokens that parse to different identifiers, also
\* identifiers that differ only in the owning account, are bound to
\* different Instances.
C11_InstancePerIdentifier ==
    \A h1 \in handles : \A h2 \in handles :
        ParseCustomEmojiData(h1.data) # ParseCustomEmojiData(h2.data)
            => h1.instance # h2.instance


\* ----------------------------------------------------------- repaint timer

\* The clock stops at MaxTime; a bunch takes MaxBunch registrations; no
\* repaintLater() call after MaxRuns runs of invokeRepaints().
MaxTime == 2

MaxBunch == 2

MaxRuns == 1

\* Two frame durations (the keys of _repaints) and two Instances.
Durations == {1, 2}

Targets == {1, 2}

\* The number of runs of invokeRepaints() so far.
Runs == IF repaintLog = <<>> THEN 0 ELSE repaintLog[1].run

\* The repaint members of the manager and their history, as one value.
RepaintState ==
    [repaints |-> repaints, scheduled |-> repaintTimerScheduled,
     next |-> repaintNext, timer |-> repaintTimer, log |-> repaintLog]

SetRepaintState(m) ==
    /\ repaints' = m.repaints
    /\ repaintTimerScheduled' = m.scheduled
    /\ repaintNext' = m.next
    /\ repaintTimer' = m.timer
    /\ repaintLog' = m.log

\* RepaintBunch{}: when = 0, no instances.
NoBunch == [when |-> 0, instances |-> <<>>]

\* scheduleRepaintTimer(): queue the postponed call unless it is queued.
scheduleRepaintTimer(m) ==
    IF m.scheduled THEN m ELSE [m EXCEPT !.scheduled = TRUE]

\* repaintLater(instance, request).
repaintLater(m, instance, req) ==
    LET bunch == IF req.duration \in DOMAIN m.repaints
                 THEN m.repaints[req.duration] ELSE NoBunch
        put   == [when |-> IF bunch.when < req.when THEN req.when ELSE bunch.when,
                  instances |-> Append(bunch.instances, instance)]
        reps  == [d \in DOMAIN m.repaints \cup {req.duration} |->
                     IF d = req.duration THEN put ELSE m.repaints[d]]
    IN  scheduleRepaintTimer([m EXCEPT !.repaints = reps])

\* The loop of the postponed call over _repaints, in key order.
RECURSIVE NextDue(_, _, _)
NextDue(reps, left, next) ==
    IF left = {} THEN next
    ELSE LET d == CHOOSE x \in left : \A y \in left : x <= y
         IN  NextDue(reps, left \ {d},
                     IF next = 0 \/ next > reps[d].when THEN reps[d].when ELSE next)

\* next && (!_repaintNext || _repaintNext > next)
NeedsReprogramUnsetOnly(next, programmed) == next # 0 /\ programmed = 0

NeedsReprogram(next, programmed) ==
    next # 0 /\ (programmed = 0 \/ programmed > next)

\* invokeRepaints() skips a bunch when i->second.when > now.
IsDueBefore(when, t) == when < t

IsDue(when, t) == ~(when > t)

\* invokeRepaints() at time t, with the Instances in `living` alive.
invokeRepaints(m, t, living, byTimer) ==
    LET due   == {d \in DOMAIN m.repaints : IsDue(m.repaints[d].when, t)}
        slots == UNION {{<<d, i>> : i \in 1..Len(m.repaints[d].instances)} : d \in due}
        calls == [x \in Targets |->
                     IF x \in living
                     THEN Cardinality({s \in slots : m.repaints[s[1]].instances[s[2]] = x})
                     ELSE 0]
    IN  scheduleRepaintTimer(
            [m EXCEPT !.next = 0,
                      !.repaints = [d \in DOMAIN m.repaints \ due |-> m.repaints[d]],
                      !.log = <<[run |-> IF m.log = <<>> THEN 1 ELSE m.log[1].run + 1,
                                 timer |-> byTimer, calls |-> calls]>>])

\* The call queued by Ui::PostponeCall in scheduleRepaintTimer().
postponed(m, t, living) ==
    LET cleared == [m EXCEPT !.scheduled = FALSE]
        next    == NextDue(cleared.repaints, DOMAIN cleared.repaints, 0)
    IN  IF NeedsReprogram(next, cleared.next)
        THEN IF t >= next
             THEN invokeRepaints([cleared EXCEPT !.next = 0, !.timer = 0], t, living, FALSE)
             ELSE [cleared EXCEPT !.next = next, !.timer = next]
        ELSE cleared

\* An Instance asks for a repaint at `when`, a time that is not zero, for
\* frames of `duration`.
RepaintLater(instance, duration, when) ==
    /\ instance \in alive
    /\ when > 0
    /\ Runs < MaxRuns
    /\ duration \in DOMAIN repaints => Len(repaints[duration].instances) < MaxBunch
    /\ SetRepaintState(repaintLater(RepaintState, instance,
                                    [when |-> when, duration |-> duration]))
    /\ UNCHANGED <<codecVars, loaderVars, managerVars, now, alive>>

PostponedCall ==
    /\ repaintTimerScheduled
    /\ SetRepaintState(postponed(RepaintState, now, alive))
    /\ UNCHANGED <<codecVars, loaderVars, managerVars, now, alive>>

\* _repaintTimer([=] { invokeRepaints(); }) fires, at its time or later.
TimerFire ==
    /\ repaintTimer # 0
    /\ now >= repaintTimer
    /\ SetRepaintState(invokeRepaints([RepaintState EXCEPT !.timer = 0], now, alive, TRUE))
    /\ UNCHANGED <<codecVars, loaderVars, managerVars, now, alive>>

Tick ==
    /\ now < MaxTime
    /\ now' = now + 1
    /\ UNCHANGED <<codecVars, loaderVars, managerVars, alive, repaints,
                   repaintTimerScheduled, repaintNext, repaintTimer, repaintLog>>

\* An Instance is destroyed: the weak pointers to it become null.
DestroyInstance(instance) ==
    /\ instance \in alive
    /\ alive' = alive \ {instance}
    /\ UNCHANGED <<codecVars, loaderVars, managerVars, now, repaints,
                   repaintTimerScheduled, repaintNext, repaintTimer, repaintLog>>

InitRepaint ==
    /\ CodecIdle
    /\ NoLoaders
    /\ docs = {}
    /\ NoManager
    /\ now = 0
    /\ alive = Targets

NextRepaint ==
    \/ \E x \in Targets, d \in Durations, when \in now..MaxTime : RepaintLater(x, d, when)
    \/ PostponedCall
    \/ TimerFire
    \/ Tick
    \/ \E x \in Targets : DestroyInstance(x)

SpecRepaint == InitRepaint /\ [][NextRepaint]_vars


\* The least due time over the bunches of a non-empty repaint map.
MinWhen ==
    CHOOSE w \in {repaints[d].when : d \in DOMAIN repaints} :
        \A d \in DOMAIN repaints : w <= repaints[d].when

\* C12, as claimed: while a bunch exists the timer is scheduled and
\* _repaintNext is the least due time of the bunches.
C12_TimerAtMinimum ==
    DOMAIN repaints # {} =>
        /\ repaintTimer # 0
        /\ repaintNext = MinWhen

\* C12, amended: while a bunch exists either the postponed rescheduling call
\* is queued, or the timer is scheduled for _repaintNext and _repaintNext is
\* not later than the least due time of the bunches.
C12_TimerNotAfterMinimum ==
    DOMAIN repaints # {} =>
        \/ repaintTimerScheduled
        \/ /\ repaintTimer # 0
           /\ repaintTimer = repaintNext
           /\ repaintNext <= MinWhen

\* The timer stays programmed for an earlier time after a later
\* repaintLater() call moved the only bunch to a later due time.
C12_Witness ==
    /\ DOMAIN repaints # {}
    /\ ~repaintTimerScheduled
    /\ repaintTimer # 0
    /\ repaintNext < MinWhen

\* The registrations of Instance x in the bunches of `reps` that are due at t.
Registrations(reps, x, t) ==
    Cardinality(UNION {{<<d, i>> : i \in {k \in 1..Len(reps[d].instances) :
                                             reps[d].instances[k] = x}} :
                       d \in {e \in DOMAIN reps : reps[e].when <= t}})

\* A step in which invokeRepaints() ran.
InvokeStep == Runs' = Runs + 1

\* What a run of invokeRepaints() does to the bunches: the due ones are
\* removed, the others stay as they are.
FlushedDue ==
    \A d \in DOMAIN repaints :
        IF repaints[d].when <= now
        THEN d \notin DOMAIN repaints'
        ELSE d \in DOMAIN repaints' /\ repaints'[d] = repaints[d]

\* C13, as claimed: a run of invokeRepaints() removes the due bunches, leaves
\* the others, and calls repaint() exactly once on every living Instance
\* registered in a due bunch and on no other Instance.
C13_RepaintedOnce ==
    [][InvokeStep =>
          /\ FlushedDue
          /\ \A x \in Targets :
                repaintLog'[1].calls[x]
                    = IF x \in alive /\ Registrations(repaints, x, now) > 0 THEN 1 ELSE 0]_vars

\* C13, amended: a run of invokeRepaints() removes the due bunches, leaves
\* the others, and calls repaint() on every living Instance once for each of
\* its registrations in a due bunch, and on no other Instance.
C13_RepaintedPerRegistration ==
    [][InvokeStep =>
          /\ FlushedDue
          /\ \A x \in Targets :
                repaintLog'[1].calls[x]
                    = IF x \in alive THEN Registrations(repaints, x, now) ELSE 0]_vars

\* A run repainted one Instance twice and left a bunch that was not due, with
\* the other Instance destroyed.
C13_Witness ==
    /\ repaintLog # <<>>
    /\ DOMAIN repaints # {}
    /\ \E x \in Targets : repaintLog[1].calls[x] = 2
    /\ \E y \in Targets : y \notin alive /\ repaintLog[1].calls[y] = 0
    /\ \A d \in DOMAIN repaints : repaints[d].when > now


\* ------------------------------------------------ repaint timer, coalescing

\* Bunches are registered ahead of their due time, one repaintLater() call
\* each and none after the first flush; the event loop is never late: the
\* clock moves only when no postponed call is queued and no timer is due.
RegisterBunch(instance, duration, when) ==
    /\ duration \notin DOMAIN repaints
    /\ when > now
    /\ Runs = 0
    /\ RepaintLater(instance, duration, when)

TickOnTime ==
    /\ ~repaintTimerScheduled
    /\ ~(repaintTimer # 0 /\ now >= repaintTimer)
    /\ Tick

NextCoalesce ==
    \/ \E x \in Targets, d \in Durations, when \in 1..MaxTime : RegisterBunch(x, d, when)
    \/ PostponedCall
    \/ TimerFire
    \/ TickOnTime
    \/ \E x \in Targets : DestroyInstance(x)

SpecCoalesce == InitRepaint /\ [][NextCoalesce]_vars

\* C14: with bunches registered ahead of their due times and no later
\* repaintLater() call, invokeRepaints() runs only as the timer callback, the
\* timer fires at the time it was programmed for, which is the due time of a
\* bunch, and flushes the bunches due then and no other; after that it is
\* programmed again for the least due time left.
C14_FiresAtDueTimes ==
    /\ [][InvokeStep =>
             /\ repaintLog'[1].timer
             /\ repaintTimer = now
             /\ \E d \in DOMAIN repaints : repaints[d].when = now
             /\ \A d \in DOMAIN repaints : repaints[d].when >= now
             /\ FlushedDue]_vars
    /\ [](DOMAIN repaints # {} /\ ~repaintTimerScheduled
             => repaintTimer = MinWhen /\ repaintNext = MinWhen /\ MinWhen >= now)

\* The timer fired a second time, at the later due time, after the bunch due
\* earlier was flushed alone.
C14_Witness ==
    /\ Runs = 2
    /\ repaintLog[1].timer
    /\ now = 2
    /\ DOMAIN repaints = {}
    /\ ~repaintTimerScheduled
    /\ repaintTimer = 0


\* ---------------------------------------------------------- cache round trip

\* One loader of a known document; once its renderer wrote the cache entry a
\* second loader of the same document is made, with either size tag. The
\* cache keeps what the renderers wrote: a read returns the entry exactly
\* when the entry is there.
InitCache ==
    /\ CodecIdle
    /\ NoManager
    /\ NoTargets
    /\ \E id \in LoaderDocs, tag \in SizeTags :
          /\ docs = {id}
          /\ objects = (<<id, 1>> :> InitialState(docs, [selfId |-> 1, id |-> id], tag))
    /\ trace = [l \in DOMAIN objects |-> NoTrace]
    /\ cacheGets = {}
    /\ cache = {}
    /\ docData \in {{}, LoaderDocs}
    /\ expectsFailed = FALSE

\* std::make_unique<CustomEmojiLoader>(document, tag), after the entry of the
\* first loader was written.
FreshLoader(l, tag) ==
    /\ l \in DOMAIN objects
    /\ l[2] = 1
    /\ <<l[1], 2>> \notin DOMAIN objects
    /\ cacheKey(objects[l]) \in cache
    /\ objects' = objects @@ (<<l[1], 2>> :> LookupState(objects[l].document, tag))
    /\ trace' = trace @@ (<<l[1], 2>> :> NoTrace)
    /\ UNCHANGED <<codecVars, repaintVars, cacheGets, cache, docs, docData,
                   expectsFailed, managerVars>>

CacheRead(r) == CacheGetDone(r, r.key \in cache)

NextCache ==
    \/ \E l \in DOMAIN objects : MayLoad(l) /\ Load(l, 1)
    \/ \E l \in DOMAIN objects : Cancel(l)
    \/ \E r \in cacheGets : CacheRead(r)
    \/ \E d \in LoaderDocs : DownloaderTaskFinished(d)
    \/ \E l \in DOMAIN objects : RendererPut(l)
    \/ \E l \in DOMAIN objects, tag \in SizeTags : FreshLoader(l, tag)

SpecCache == InitCache /\ [][NextCache]_vars

\* Loader b was made for the document of loader a after a's entry was written.
FreshFor(a, b) == a[2] = 1 /\ b[2] = 2 /\ a[1] = b[1]

\* The fresh loader b is served from the entry a's renderer wrote: same key,
\* every read of b asks for that key and finds the entry, b waits on a read
\* until it is answered, is answered with a cached result only, never
\* enters the Load state and decodes nothing.
ServedFromCache(a, b) ==
    /\ cacheKey(objects[b]) = cacheKey(objects[a])
    /\ \A r \in cacheGets : r.loader = b => r.key = cacheKey(objects[a]) /\ r.key \in cache
    /\ (trace[b].waiting # <<>> /\ trace[b].delivered = <<>>)
           => \E r \in cacheGets : r.loader = b /\ Live(objects, r)
    /\ \A i \in 1..Len(trace[b].delivered) : trace[b].delivered[i].kind = "Cached"
    /\ objects[b].state = "Lookup"
    /\ trace[b].decodes = 0

\* C15 as stated: a fresh loader with the tag of the loader that decoded is
\* served from the cache without a decode, whatever the asset; with the other
\* tag its cache key differs.
C15_CacheRoundTrip ==
    \A a, b \in DOMAIN objects :
        FreshFor(a, b) =>
            /\ objects[b].tag = objects[a].tag => ServedFromCache(a, b)
            /\ objects[b].tag # objects[a].tag
                   => cacheKey(objects[b]) # cacheKey(objects[a])

\* C15: for an asset that has a base cache key, a fresh loader with the tag
\* of the loader that decoded reads the entry under the same key, delivers a
\* cached result and never decodes, and a fresh loader with the other tag
\* has a different key; for an asset without a base cache key the key is
\* empty for both tags and the fresh loader reads nothing.
C15_CacheRoundTripWithBaseKey ==
    \A a, b \in DOMAIN objects :
        FreshFor(a, b) =>
            IF objects[a].document \in NoBaseKeyDocs
            THEN /\ cacheKey(objects[b]) = NoKey
                 /\ \A r \in cacheGets : r.loader # b
            ELSE /\ objects[b].tag = objects[a].tag => ServedFromCache(a, b)
                 /\ objects[b].tag # objects[a].tag
                        => cacheKey(objects[b]) # cacheKey(objects[a])

\* One decode by the first loader, then a cached result for the fresh loader
\* of the same asset and tag.
C15_Witness ==
    \E a, b \in DOMAIN objects :
        /\ FreshFor(a, b)
        /\ objects[b].tag = objects[a].tag
        /\ trace[a].decodes = 1
        /\ trace[b].decodes = 0
        /\ trace[b].delivered # <<>>
        /\ trace[b].delivered[1].kind = "Cached"
        /\ objects[b].state = "Lookup"


\* ------------------------------------------------------- stale completions

\* The cache reads answered by this step.
Answered == cacheGets \ cacheGets'

\* Read r belongs to a Process its loader no longer holds.
Stale(r) == objects[r.loader].process.guard # r.guard

\* A result was handed to a callback of loader l in this step.
Delivers(l) == trace'[l].delivered # trace[l].delivered

\* C16: the completion of a cancelled cache read changes no loader and
\* invokes no callback, also when load() started a new operation meanwhile;
\* a download that finishes changes no loader whose decode was cancelled;
\* and a completion that delivers a result is the completion of the
\* loader's current operation, delivering to the callback that operation
\* holds.
C16_StaleCompletionIgnored ==
    [][/\ \A r \in Answered :
              Stale(r) => objects' = objects /\ trace' = trace
       /\ docData' # docData =>
              \A l \in DOMAIN objects :
                  objects[l].process.guard = 0
                      => objects'[l] = objects[l] /\ trace'[l] = trace[l]
       /\ (Answered # {} \/ docData' # docData) =>
              \A l \in DOMAIN objects :
                  Delivers(l) =>
                      /\ objects[l].process.guard # 0
                      /\ trace'[l].delivered[1].cb = objects[l].process.loaded
                      /\ \A r \in Answered : ~Stale(r)]_vars

\* The read of a cancelled lookup was answered while the read of a later
\* load() is in flight: the loader still waits in the Lookup state with its
\* second Process and nothing was delivered.
C16_Witness ==
    \E l \in DOMAIN objects :
        /\ objects[l].state = "Lookup"
        /\ objects[l].process.guard = 2
        /\ objects[l].process.loaded # 0
        /\ trace[l].delivered = <<>>
        /\ trace[l].waiting # <<>>
        /\ cacheGets = {[loader |-> l, guard |-> 2, key |-> cacheKey(objects[l])]}


\* ------------------------------------------------------------- cache misses

\* This step answered a read of loader l that its Process still waited for,
\* and the read brought no usable entry.
Missed(l) ==
    /\ \E r \in Answered : r.loader = l /\ ~Stale(r)
    /\ objects[l].state = "Lookup"
    /\ ~(Delivers(l) /\ trace'[l].delivered[1].kind = "Cached")
    /\ objects'[l] # [objects[l] EXCEPT !.process.loaded = 0]

\* This step handed loader l's callback cb a freshly decoded renderer, once.
Decoded(l, cb) ==
    /\ trace'[l].delivered # <<>>
    /\ trace'[l].delivered[1].cb = cb
    /\ trace'[l].delivered[1].kind = "Caching"
    /\ trace'[l].decodes = trace[l].decodes + 1
    /\ objects'[l].process = NoProcess

\* C17: a cache read that misses delivers nothing but moves the loader to
\* the Load state; with the asset data at hand the pending callback gets a
\* decoded renderer at once, otherwise one Process holding that callback
\* waits for the download, and when the data arrives the callback the
\* Process holds gets a decoded renderer, once. No result is ever anything
\* but a cached or a decoded renderer.
C17_MissFallsThrough ==
    /\ [][\A l \in DOMAIN objects :
              /\ Missed(l) =>
                    /\ objects'[l].state = "Load"
                    /\ IF Available(objects[l], docData)
                       THEN Decoded(l, objects[l].process.loaded)
                       ELSE /\ trace'[l].delivered = trace[l].delivered
                            /\ trace'[l].decodes = trace[l].decodes
                            /\ objects'[l].process.loaded = objects[l].process.loaded
                            /\ objects'[l].process.guard # 0
                            /\ objects'[l].guards = objects[l].guards + 1
              /\ (/\ objects[l].state = "Load"
                  /\ objects[l].process.guard # 0
                  /\ Available(objects[l], docData')) =>
                        Decoded(l, objects[l].process.loaded)]_vars
    /\ [](\A l \in DOMAIN objects :
              /\ \A i \in 1..Len(trace[l].delivered) :
                    /\ trace[l].delivered[i].kind \in {"Cached", "Caching"}
                    /\ trace[l].delivered[i].cb # 0
              /\ (objects[l].state = "Load" /\ objects[l].process.guard # 0) =>
                    /\ ~Available(objects[l], docData)
                    /\ objects[l].process.loaded = Last(trace[l].waiting)
                    /\ Outstanding(l) = 1)

\* A loader of an asset with a cache key went through a miss and delivered
\* one decoded renderer.
C17_Witness ==
    \E l \in DOMAIN objects :
        /\ objects[l].document \notin NoBaseKeyDocs
        /\ objects[l].state = "Load"
        /\ objects[l].process = NoProcess
        /\ trace[l].decodes = 1
        /\ trace[l].delivered # <<>>
        /\ trace[l].delivered[1].kind = "Caching"
        /\ cacheGets = {}


\* --------------------------------------------------------- state transitions

\* C18: _state is assigned only along Resolve -> Lookup -> Load. A loader
\* leaves the Resolve state only through resolved(), for the document its
\* token names; it enters the Load state only from the Lookup state, when a
\* live cache read missed or when load() finds no base cache key (inside
\* resolved() too, when a load was requested: the loader is then in the Load
\* state when resolved() returns, having held the Lookup state on the way);
\* no step takes a loader to an earlier state.
C18_StateOrder ==
    /\ [][\A l \in DOMAIN objects :
              /\ objects[l].state = "Load" => objects'[l].state = "Load"
              /\ objects[l].state = "Lookup" => objects'[l].state \in {"Lookup", "Load"}
              /\ (objects[l].state = "Resolve" /\ objects'[l].state # "Resolve") =>
                    /\ objects'[l].document
                           = ParseCustomEmojiData(objects[l].entityData).id
                    /\ objects'[l].document \in docs'
                    /\ objects'[l].state = "Load" =>
                           /\ objects[l].requested # 0
                           /\ objects'[l].document \in NoBaseKeyDocs
              /\ (objects[l].state = "Lookup" /\ objects'[l].state = "Load") =>
                    \/ \E r \in Answered : r.loader = l /\ ~Stale(r)
                    \/ /\ objects[l].document \in NoBaseKeyDocs
                       /\ objects[l].process.guard = 0
                       /\ objects'[l].guards = objects[l].guards + 1
              /\ objects'[l].state # objects[l].state =>
                    objects'[l].previous
                        = (IF objects'[l].state = "Load" THEN "Lookup" ELSE "Resolve")]_vars
    /\ [](\A l \in DOMAIN objects :
              /\ objects[l].state = "Resolve" => objects[l].previous = "None"
              /\ objects[l].state = "Lookup" => objects[l].previous \in {"None", "Resolve"}
              /\ objects[l].state = "Load" => objects[l].previous = "Lookup")

\* A loader of an asset without a base cache key was resolved and is in the
\* Load state with its first Process, reached through the Lookup state.
C18_Witness ==
    \E l \in DOMAIN objects :
        /\ objects[l].state = "Load"
        /\ objects[l].previous = "Lookup"
        /\ objects[l].document \in NoBaseKeyDocs
        /\ objects[l].guards = 1
        /\ objects[l].process.guard = 1
        /\ trace[l].waiting # <<>>
        /\ docData = {}


\* ------------------------------------------------------------------ resolved

\* resolved() ran on loader l in this step.
ResolvedStep(l) == objects[l].state = "Resolve" /\ objects'[l].state # "Resolve"

\* No load was requested: resolved() leaves the loader idle in the Lookup state.
ResolvedIdle(l) ==
    /\ objects'[l].state = "Lookup"
    /\ ~loading(objects'[l])
    /\ objects'[l].guards = objects[l].guards
    /\ cacheGets' = cacheGets
    /\ Outstanding(l)' = 0
    /\ trace'[l].delivered = trace[l].delivered

\* The requested load was re-issued and its operation is in flight: a cache
\* read in the Lookup state, or a decode in the Load state when the
\* document has no base cache key.
ReissuedInFlight(l) ==
    /\ loading(objects'[l])
    /\ objects'[l].process.loaded = objects[l].requested
    /\ objects'[l].guards = objects[l].guards + 1
    /\ Outstanding(l)' = 1
    /\ trace'[l].delivered = trace[l].delivered
    /\ IF objects'[l].document \in NoBaseKeyDocs
       THEN objects'[l].state = "Load" /\ objects'[l].previous = "Lookup"
            /\ cacheGets' = cacheGets
       ELSE objects'[l].state = "Lookup"
            /\ cacheGets' = cacheGets \cup {[loader |-> l, guard |-> objects'[l].process.guard,
                                            key |-> cacheKey(objects'[l])]}

\* C19 as stated: after resolved() with a requested load an operation is in
\* flight, without one the loader is idle.
C19_ResolvedReissues ==
    [][\A l \in DOMAIN objects :
           ResolvedStep(l) =>
               IF objects[l].requested # 0 THEN ReissuedInFlight(l)
               ELSE ResolvedIdle(l)]_vars

\* C19: after resolved() with a requested load the load was re-issued
\* against the Lookup state: a cache read is in flight, or, without a base
\* cache key, a decode is in flight in the Load state, unless the asset data
\* is at hand already, in which case the requested callback got its decoded
\* renderer inside resolved() and nothing is in flight; without a requested
\* load nothing is started and loading() is false.
C19_ResolvedReissuesOrDelivers ==
    [][\A l \in DOMAIN objects :
           ResolvedStep(l) =>
               IF objects[l].requested = 0 THEN ResolvedIdle(l)
               ELSE IF /\ objects'[l].document \in NoBaseKeyDocs
                       /\ objects'[l].document \in docData
                    THEN /\ Decoded(l, objects[l].requested)
                         /\ objects'[l].state = "Load"
                         /\ objects'[l].previous = "Lookup"
                         /\ ~loading(objects'[l])
                         /\ Outstanding(l)' = 0
                         /\ cacheGets' = cacheGets
                    ELSE ReissuedInFlight(l)]_vars

\* resolved() re-issued the requested load of an asset with a cache key: the
\* first Process of the loader waits on a cache read in the Lookup state.
C19_Witness ==
    \E l \in DOMAIN objects :
        /\ objects[l].state = "Lookup"
        /\ objects[l].previous = "Resolve"
        /\ objects[l].guards = 1
        /\ objects[l].process.guard = 1
        /\ objects[l].process.loaded # 0
        /\ trace[l].waiting # <<>>
        /\ cacheGets = {[loader |-> l, guard |-> 1, key |-> cacheKey(objects[l])]}


\* ------------------------------------------------------------ batch routing

\* A loader is destroyed with the object that owns it; the weak pointers in
\* _loaders to it are dead from then on.
DestroyLoader(l) ==
    /\ l \in DOMAIN objects
    /\ objects[l].state # "Dead"
    /\ objects' = [objects EXCEPT ![l].state = "Dead", ![l].process = NoProcess,
                                  ![l].requested = 0]
    /\ UNCHANGED <<codecVars, repaintVars, cacheGets, cache, docs, docData, trace,
                   expectsFailed, managerVars>>

RoutingTokens == {SerializeCustomEmojiId([selfId |-> 1, id |-> a]) : a \in AssetIds}

NextRouting ==
    \/ \E data \in RoutingTokens : Create(data)
    \/ RunRequest
    \/ \E r \in network : \E result \in Responses : RequestDoneRecorded(r, result)
    \/ \E r \in network : RequestFail(r)
    \/ \E l \in DOMAIN objects : DestroyLoader(l)

SpecRouting == InitManager /\ [][NextRouting]_vars

\* The done handler of batch i ran in this step.
DoneStep(i) == batches[i].result = "sent" /\ batches'[i].result = "done"

FirstIndex(s, x) == CHOOSE i \in 1..Len(s) : s[i] = x /\ \A j \in 1..(i - 1) : s[j] # x

\* C20: when a batch completes, every live loader waiting on a returned id is
\* resolved with that id's document, once, the calls going in the order of
\* the records in the response; the waiter entries of the returned ids are
\* removed; dead loaders and loaders not waiting on a returned id are left
\* as they are; ids of the batch that the response lacks keep their waiters,
\* still resolving.
C20_RoutedInResponseOrder ==
    [][\A i \in 1..Len(batches) :
           DoneStep(i) =>
               LET resp     == lastDone'.response
                   ord      == lastDone'.order
                   returned == Elements(resp)
               IN  /\ \A id \in DOMAIN loaders :
                          IF id \in returned
                          THEN /\ id \notin DOMAIN loaders'
                               /\ \A k \in 1..Len(loaders[id]) :
                                      LET l == loaders[id][k]
                                      IN  IF objects[l].state = "Dead"
                                          THEN /\ objects'[l] = objects[l]
                                               /\ l \notin Elements(ord)
                                          ELSE /\ resolving(objects[l])
                                               /\ objects'[l].state = "Lookup"
                                               /\ objects'[l].document = id
                                               /\ Cardinality({p \in 1..Len(ord) : ord[p] = l}) = 1
                          ELSE /\ id \in DOMAIN loaders'
                               /\ loaders'[id] = loaders[id]
                               /\ \A k \in 1..Len(loaders[id]) :
                                      objects'[loaders[id][k]] = objects[loaders[id][k]]
                   /\ \A p \in 1..Len(ord) :
                          /\ ord[p][1] \in returned \cap DOMAIN loaders
                          /\ ord[p] \in Elements(loaders[ord[p][1]])
                   /\ \A p \in 1..Len(ord) : \A q \in (p + 1)..Len(ord) :
                          FirstIndex(resp, ord[p][1]) < FirstIndex(resp, ord[q][1])
                   /\ \A l \in DOMAIN objects :
                          l \notin Elements(ord) => objects'[l] = objects[l]
                   /\ \A id \in Elements(batches[i].ids) \ returned :
                          \A l \in DOMAIN objects :
                              (l[1] = id /\ resolving(objects[l])) =>
                                  /\ resolving(objects'[l])
                                  /\ id \in DOMAIN loaders'
                                  /\ l \in Elements(loaders'[id])]_vars

\* One response returned asset 2 before asset 1 and both waiting loaders were
\* resolved, the loader of asset 2 first.
C20_Witness ==
    /\ lastDone.response = <<2, 1>>
    /\ Len(lastDone.order) = 2
    /\ lastDone.order[1][1] = 2
    /\ lastDone.order[2][1] = 1
    /\ \A p \in 1..2 : objects[lastDone.order[p]].state = "Lookup"
    /\ loaders = <<>>
    /\ ~expectsFailed


\* -------------------------------------------------------------- pending ids

\* C21: while ids are pending, a batch request is in flight or a deferred
\* request() call is queued.
C21_PendingNotStranded ==
    pendingForRequest # <<>> => (requestId # 0 \/ onMain > 0)

\* After an earlier batch was answered a create() queued an id and the
\* deferred request() call that will send it.
C21_Witness ==
    /\ pendingForRequest # <<>>
    /\ requestId = 0
    /\ network = {}
    /\ onMain = 1
    /\ batches # <<>>


\* ------------------------------------------------- precondition of resolved

\* C22: Expects(resolving()) never fails in the done handler: every loader a
\* waiter list names is resolving unless it was destroyed, and is named
\* once, and the done handler calls resolved() on no loader twice, whatever
\* ids the responses repeat, add or bring again.
C22_ResolvedPrecondition ==
    /\ ~expectsFailed
    /\ \A id \in DOMAIN loaders :
          /\ loaders[id] # <<>>
          /\ NoRepeats(loaders[id])
          /\ \A k \in 1..Len(loaders[id]) :
                /\ loaders[id][k] \in DOMAIN objects
                /\ loaders[id][k][1] = id
                /\ objects[loaders[id][k]].state \in {"Resolve", "Dead"}
    /\ \A l \in DOMAIN objects :
          resolving(objects[l]) => l[1] \in DOMAIN loaders /\ l \in Elements(loaders[l[1]])
    /\ NoRepeats(lastDone.order)

\* A response named the same id twice after an earlier response had
\* resolved the other asset; the waiting loader was resolved once.
C22_Witness ==
    /\ \E a \in AssetIds : lastDone.response = <<a, a>>
    /\ Len(lastDone.order) = 1
    /\ objects[lastDone.order[1]].state = "Lookup"
    /\ Len(batches) >= 2
    /\ \A l \in DOMAIN objects : ~resolving(objects[l])
    /\ Cardinality(DOMAIN objects) = 2
    /\ ~expectsFailed


\* ------------------------------------------------------------ after delivery

\* Loader l delivered a result and no load() was called since.
Served(l) == trace[l].delivered # <<>> /\ trace[l].waiting = <<>>

\* C23: a loader that delivered a result holds no process, so loading() is
\* false, after a cached and after a decoded result alike, and the next
\* load() makes a new Process.
C23_IdleAfterDelivery ==
    /\ [](\A l \in DOMAIN objects : Served(l) => ~loading(objects[l]))
    /\ [][\A l \in DOMAIN objects :
              (Served(l) /\ objects'[l] # objects[l])
                  => objects'[l].guards = objects[l].guards + 1]_vars


\* ------------------------------------------------------ cancel while resolving

\* C24: after cancel() a resolving loader has no load requested, so
\* loading() is false, until load() is called again; resolved() of such a
\* loader starts nothing and delivers nothing.
C24_CancelDropsRequest ==
    /\ [](\A l \in DOMAIN objects :
              (resolving(objects[l]) /\ trace[l].cancelled) => ~loading(objects[l]))
    /\ [][\A l \in DOMAIN objects :
              (ResolvedStep(l) /\ trace[l].cancelled) => ResolvedIdle(l)]_vars


\* ------------------------------------------------- repaint timer, unbounded

\* The repaint timer run without an end: repaintLater() may be called for
\* ever.  The code reads times only through comparisons and differences, and
\* zero as "not set", so a run is kept in a frame that moves with the clock:
\* crl::now() reads Epoch throughout and a tick lowers every stored time by
\* one.  A tick waits while a stored time would reach zero, that is while a
\* handler is overdue.  Requests ask for a repaint up to Ahead ticks from now.
Epoch == 2

Ahead == 2

RECURSIVE Once(_)
Once(s) ==
    IF s = <<>> THEN <<>>
    ELSE LET r == Once(SubSeq(s, 1, Len(s) - 1))
         IN  IF Last(s) \in Elements(r) THEN r ELSE Append(r, Last(s))

\* What the run keeps of the manager's state: no history of the runs of
\* invokeRepaints(), and every target once per bunch (which targets a flush
\* repaints does not depend on how often a bunch names them).
Kept(m) ==
    [m EXCEPT !.log = <<>>,
              !.repaints = [d \in DOMAIN m.repaints |->
                               [when |-> m.repaints[d].when,
                                instances |-> Once(m.repaints[d].instances)]]]

RepaintLaterOn(instance, duration, when) ==
    /\ instance \in alive
    /\ SetRepaintState(Kept(repaintLater(RepaintState, instance,
                                         [when |-> when, duration |-> duration])))
    /\ UNCHANGED <<codecVars, loaderVars, managerVars, now, alive>>

PostponedCallOn ==
    /\ repaintTimerScheduled
    /\ SetRepaintState(Kept(postponed(RepaintState, now, alive)))
    /\ UNCHANGED <<codecVars, loaderVars, managerVars, now, alive>>

TimerFireOn ==
    /\ repaintTimer # 0
    /\ now >= repaintTimer
    /\ SetRepaintState(Kept(invokeRepaints([RepaintState EXCEPT !.timer = 0],
                                           now, alive, TRUE)))
    /\ UNCHANGED <<codecVars, loaderVars, managerVars, now, alive>>

\* The clock advances by one.
Elapse ==
    /\ \A d \in DOMAIN repaints : repaints[d].when > 1
    /\ repaintNext # 1
    /\ repaintTimer # 1
    /\ repaints' = [d \in DOMAIN repaints |->
                       [repaints[d] EXCEPT !.when = @ - 1]]
    /\ repaintNext' = IF repaintNext = 0 THEN 0 ELSE repaintNext - 1
    /\ repaintTimer' = IF repaintTimer = 0 THEN 0 ELSE repaintTimer - 1
    /\ UNCHANGED <<codecVars, loaderVars, managerVars, now, alive,
                   repaintTimerScheduled, repaintLog>>

InitRepaintOn ==
    /\ CodecIdle
    /\ NoLoaders
    /\ docs = {}
    /\ NoManager
    /\ now = Epoch
    /\ alive = Targets

NextRepaintOn ==
    \/ \E x \in Targets, d \in Durations, when \in Epoch..(Epoch + Ahead) :
          RepaintLaterOn(x, d, when)
    \/ PostponedCallOn
    \/ TimerFireOn
    \/ Elapse
    \/ \E x \in Targets : DestroyInstance(x)

\* The postponed call and the timer callback run when they are due, and
\* time advances.
FairSpecRepaint ==
    /\ InitRepaintOn
    /\ [][NextRepaintOn]_vars
    /\ WF_vars(PostponedCallOn)
    /\ WF_vars(TimerFireOn)
    /\ WF_vars(Elapse)

\* Target x is named by a bunch waiting to be flushed.
Registered(x) ==
    \E d \in DOMAIN repaints : x \in Elements(repaints[d].instances)

\* C25: a registered target that stays alive is eventually repainted: the
\* bunch that names it is flushed.
C25_EventuallyRepainted ==
    \A x \in Targets :
        (Registered(x) /\ x \in alive) ~> (~Registered(x) \/ x \notin alive)

====
